---- MODULE Spec2Model ----
(***************************************************************************)
(* A model of campscan/scanner.py: the structured extractor, the text     *)
(* extractor, the scan orchestrator and the worker-delegation strategy.   *)
(*                                                                         *)
(* JSON values are tagged nodes [t, s, kids]:                              *)
(*   t    : "map", "list", "str", "bool", "num" or "null"                  *)
(*   s    : the literal of a scalar ("true", "false", "null", digits, or   *)
(*          the characters of a string)                                    *)
(*   kids : for a map the <<[k, v]>> entries in insertion order, for a     *)
(*          list the elements (k = "")                                     *)
(* Python's None (the result of dict.get on a missing key) is JNull.       *)
(***************************************************************************)
EXTENDS Integers, Sequences, FiniteSets, TLC

(***************************************************************************)
(* Generic helpers                                                         *)
(***************************************************************************)
Min(a, b) == IF a < b THEN a ELSE b

Range(f) == {f[i] : i \in DOMAIN f}

(***************************************************************************)
(* Python string primitives                                                *)
(***************************************************************************)
\* str.lower() on one character (ASCII letters)
LowerChar(c) ==
    CASE c = "A" -> "a" [] c = "B" -> "b" [] c = "C" -> "c" [] c = "D" -> "d"
      [] c = "E" -> "e" [] c = "F" -> "f" [] c = "G" -> "g" [] c = "H" -> "h"
      [] c = "I" -> "i" [] c = "J" -> "j" [] c = "K" -> "k" [] c = "L" -> "l"
      [] c = "M" -> "m" [] c = "N" -> "n" [] c = "O" -> "o" [] c = "P" -> "p"
      [] c = "Q" -> "q" [] c = "R" -> "r" [] c = "S" -> "s" [] c = "T" -> "t"
      [] c = "U" -> "u" [] c = "V" -> "v" [] c = "W" -> "w" [] c = "X" -> "x"
      [] c = "Y" -> "y" [] c = "Z" -> "z" [] OTHER -> c

\* str.lower()
RECURSIVE Lower(_)
Lower(str) ==
    IF str = "" THEN ""
    ELSE LowerChar(SubSeq(str, 1, 1)) \o Lower(SubSeq(str, 2, Len(str)))

\* the `needle in haystack` substring test
Contains(haystack, needle) ==
    \E i \in 1..(Len(haystack) - Len(needle) + 1) :
        SubSeq(haystack, i, i + Len(needle) - 1) = needle

\* the slice text[:n]
Prefix(text, n) == SubSeq(text, 1, Min(n, Len(text)))

(***************************************************************************)
(* JSON values as decoded by response.json()                               *)
(***************************************************************************)
JStr(str)  == [t |-> "str",  s |-> str, kids |-> <<>>]
JBool(b)   == [t |-> "bool", s |-> IF b THEN "true" ELSE "false", kids |-> <<>>]
JNum(lit)  == [t |-> "num",  s |-> lit, kids |-> <<>>]
JNull      == [t |-> "null", s |-> "null", kids |-> <<>>]
JMap(ents) == [t |-> "map",  s |-> "", kids |-> ents]
JList(xs)  == [t |-> "list", s |-> "", kids |-> [i \in DOMAIN xs |-> [k |-> "", v |-> xs[i]]]]
Ent(key, val) == [k |-> key, v |-> val]

\* dict.keys()
NodeKeys(node) == {node.kids[i].k : i \in DOMAIN node.kids}

\* `key in node`
HasKey(node, key) == key \in NodeKeys(node)

\* dict.get(key): the value under exactly this key, None when absent
NodeGet(node, key) ==
    IF HasKey(node, key)
    THEN (CHOOSE e \in Range(node.kids) : e.k = key).v
    ELSE JNull

\* Python truthiness, as tested by `or`
Truthy(val) ==
    CASE val.t = "str"  -> val.s # ""
      [] val.t = "bool" -> val.s = "true"
      [] val.t = "num"  -> val.s # "0"
      [] val.t = "null" -> FALSE
      [] OTHER          -> val.kids # <<>>

\* a or b
PyOr(a, b) == IF Truthy(a) THEN a ELSE b

\* json.dumps escaping of one character of a string (ensure_ascii=False)
JsonEscChar(c) ==
    IF c = "\"" THEN "\\\"" ELSE IF c = "\\" THEN "\\\\" ELSE c

RECURSIVE JsonEsc(_)
JsonEsc(str) ==
    IF str = "" THEN ""
    ELSE JsonEscChar(SubSeq(str, 1, 1)) \o JsonEsc(SubSeq(str, 2, Len(str)))

\* json.dumps(value, ensure_ascii=False)
RECURSIVE JsonDumps(_)
RECURSIVE JsonDumpsItems(_, _)
JsonDumpsItems(kids, isMap) ==
    IF kids = <<>> THEN ""
    ELSE LET e    == Head(kids)
             item == (IF isMap THEN "\"" \o JsonEsc(e.k) \o "\": " ELSE "")
                        \o JsonDumps(e.v)
         IN  IF Tail(kids) = <<>> THEN item
             ELSE item \o ", " \o JsonDumpsItems(Tail(kids), isMap)
JsonDumps(val) ==
    CASE val.t = "str"  -> "\"" \o JsonEsc(val.s) \o "\""
      [] val.t = "map"  -> "{" \o JsonDumpsItems(val.kids, TRUE) \o "}"
      [] val.t = "list" -> "[" \o JsonDumpsItems(val.kids, FALSE) \o "]"
      [] OTHER          -> val.s

\* repr() of a str: single quotes unless the text holds ' and no "
PyReprStrEscChar(c, q) ==
    IF c = q THEN "\\" \o q ELSE IF c = "\\" THEN "\\\\" ELSE c

RECURSIVE PyReprStrBody(_, _)
PyReprStrBody(str, q) ==
    IF str = "" THEN ""
    ELSE PyReprStrEscChar(SubSeq(str, 1, 1), q)
            \o PyReprStrBody(SubSeq(str, 2, Len(str)), q)

PyReprStr(str) ==
    LET q == IF Contains(str, "'") /\ ~Contains(str, "\"") THEN "\"" ELSE "'"
    IN  q \o PyReprStrBody(str, q) \o q

\* repr() of a decoded JSON value
RECURSIVE PyRepr(_)
RECURSIVE PyReprItems(_, _)
PyReprItems(kids, isMap) ==
    IF kids = <<>> THEN ""
    ELSE LET e    == Head(kids)
             item == (IF isMap THEN PyReprStr(e.k) \o ": " ELSE "") \o PyRepr(e.v)
         IN  IF Tail(kids) = <<>> THEN item
             ELSE item \o ", " \o PyReprItems(Tail(kids), isMap)
PyRepr(val) ==
    CASE val.t = "str"  -> PyReprStr(val.s)
      [] val.t = "bool" -> (IF val.s = "true" THEN "True" ELSE "False")
      [] val.t = "null" -> "None"
      [] val.t = "num"  -> val.s
      [] val.t = "map"  -> "{" \o PyReprItems(val.kids, TRUE) \o "}"
      [] OTHER          -> "[" \o PyReprItems(val.kids, FALSE) \o "]"

\* str(value): a str is itself, anything else is its repr
PyStr(val) == IF val.t = "str" THEN val.s ELSE PyRepr(val)

(***************************************************************************)
(* _deep_iter and _extract_from_json_blob                                  *)
(***************************************************************************)
\* a slip: a mapping is yielded after the mappings found in its values
RECURSIVE _deep_iter_post(_)
RECURSIVE DeepIterKidsPost(_)
DeepIterKidsPost(kids) ==
    IF kids = <<>> THEN <<>>
    ELSE _deep_iter_post(Head(kids).v) \o DeepIterKidsPost(Tail(kids))
_deep_iter_post(data) ==
    IF data.t = "map" THEN DeepIterKidsPost(data.kids) \o <<data>>
    ELSE IF data.t = "list" THEN DeepIterKidsPost(data.kids)
    ELSE <<>>

\* _deep_iter: every mapping of the tree, depth-first, a mapping before its
\* values; a scalar yields nothing
RECURSIVE _deep_iter(_)
RECURSIVE DeepIterKids(_)
DeepIterKids(kids) ==
    IF kids = <<>> THEN <<>>
    ELSE _deep_iter(Head(kids).v) \o DeepIterKids(Tail(kids))
_deep_iter(data) ==
    IF data.t = "map" THEN <<data>> \o DeepIterKids(data.kids)
    ELSE IF data.t = "list" THEN DeepIterKids(data.kids)
    ELSE <<>>

NameLikeKeys   == {"name", "unitname", "site", "sitename"}
StatusLikeKeys == {"status", "availability", "available", "isavailable"}

\* keys = {key.lower() for key in node.keys()}
LowerKeys(node) == {Lower(key) : key \in NodeKeys(node)}

has_name(node) == \E k \in NameLikeKeys : k \in LowerKeys(node)

\* a slip: the status-like keys are looked up in the node's own casing
has_status_cased(node) ==
    \E k \in {"status", "availability", "available", "isAvailable"} :
        k \in NodeKeys(node)

has_status(node) == \E k \in StatusLikeKeys : k \in LowerKeys(node)

\* the guard `if not (has_name and has_status): continue`, negated
Qualifies(node) == has_name(node) /\ has_status(node)

\* the `or` chain over node.get("unitName"), ..., "Unknown"
unit_name(node) ==
    PyStr(PyOr(NodeGet(node, "unitName"),
          PyOr(NodeGet(node, "siteName"),
          PyOr(NodeGet(node, "site"),
          PyOr(NodeGet(node, "name"), JStr("Unknown"))))))

\* the conditional chain over "status" in node, ...
raw_status(node) ==
    IF HasKey(node, "status") THEN NodeGet(node, "status")
    ELSE IF HasKey(node, "availability") THEN NodeGet(node, "availability")
    ELSE IF HasKey(node, "available") THEN NodeGet(node, "available")
    ELSE NodeGet(node, "isAvailable")

DetailsLimit == 400

\* json.dumps(node, ensure_ascii=False)[:400]
details(node) == Prefix(JsonDumps(node), DetailsLimit)

AvailabilityRecord(campground, source, unit, status, det) ==
    [campground |-> campground, source |-> source, unit_name |-> unit,
     status |-> status, details |-> det]

NodeRecord(node, campground, source) ==
    AvailabilityRecord(campground, source, unit_name(node),
                       PyStr(raw_status(node)), details(node))

RECURSIVE ExtractNodes(_, _, _)
ExtractNodes(nodes, campground, source) ==
    IF nodes = <<>> THEN <<>>
    ELSE (IF Qualifies(Head(nodes))
          THEN <<NodeRecord(Head(nodes), campground, source)>>
          ELSE <<>>)
         \o ExtractNodes(Tail(nodes), campground, source)

_extract_from_json_blob(blob, campground, source) ==
    ExtractNodes(_deep_iter(blob), campground, source)

(***************************************************************************)
(* _extract_from_page_text: the regular expression                         *)
(*   (Site\s*\w+[^\n]{0,40})\s+(Available|Sold\s*out|Not\s+available)      *)
(* with re.IGNORECASE, matched as a backtracking engine matches it: every  *)
(* quantifier is greedy, positions are 1-based, an end is exclusive.       *)
(***************************************************************************)
CharAt(text, i) == SubSeq(text, i, i)

\* \s
IsSpace(c) == c \in {" ", "\t", "\n", "\r", "\f"}

\* \w
IsWord(c) ==
    Lower(c) \in {"a", "b", "c", "d", "e", "f", "g", "h", "i", "j", "k", "l", "m",
                  "n", "o", "p", "q", "r", "s", "t", "u", "v", "w", "x", "y", "z",
                  "0", "1", "2", "3", "4", "5", "6", "7", "8", "9", "_"}

\* [^\n]
IsNotNewline(c) == c # "\n"

\* membership of a character in the class "\\s", "\\w" or "[^\\n]"
InClass(c, class) ==
    CASE class = "\\s" -> IsSpace(c)
      [] class = "\\w" -> IsWord(c)
      [] OTHER        -> IsNotNewline(c)

\* the end of the longest run of characters of a class that starts at p
RunEnd(text, p, class) ==
    CHOOSE q \in p..(Len(text) + 1) :
        /\ \A j \in p..(q - 1) : InClass(CharAt(text, j), class)
        /\ (q = Len(text) + 1 \/ ~InClass(CharAt(text, q), class))

\* a literal of the pattern at position p, ignoring case
LitAt(text, p, lit) ==
    /\ p + Len(lit) - 1 <= Len(text)
    /\ Lower(SubSeq(text, p, p + Len(lit) - 1)) = lit

AnyLimit == 40

\* (Available|Sold\s*out|Not\s+available) at p: the end of the match, 0 if none
StatusEnd(text, p) ==
    IF LitAt(text, p, "available") THEN p + 9
    ELSE IF LitAt(text, p, "sold")
            /\ LitAt(text, RunEnd(text, p + 4, "\\s"), "out")
         THEN RunEnd(text, p + 4, "\\s") + 3
    ELSE IF LitAt(text, p, "not")
            /\ RunEnd(text, p + 3, "\\s") > p + 3
            /\ LitAt(text, RunEnd(text, p + 3, "\\s"), "available")
         THEN RunEnd(text, p + 3, "\\s") + 9
    ELSE 0

\* the ways the pattern matches from position i: <<p1, p2, p3, p4>> are the
\* ends of \s*, \w+, [^\n]{0,40} and \s+
MatchesAt(text, i) ==
    IF ~LitAt(text, i, "site") THEN {}
    ELSE UNION { UNION { UNION {
            { <<p1, p2, p3, p4>> :
                p4 \in { q \in (p3 + 1)..RunEnd(text, p3, "\\s") :
                            StatusEnd(text, q) # 0 } }
            : p3 \in p2..Min(p2 + AnyLimit, RunEnd(text, p2, "[^\\n]")) }
            : p2 \in (p1 + 1)..RunEnd(text, p1, "\\w") }
            : p1 \in (i + 4)..RunEnd(text, i + 4, "\\s") }

\* greedy quantifiers: the engine tries the longer repetition first
Preferred(c, d) ==
    \/ c[1] > d[1]
    \/ c[1] = d[1] /\ c[2] > d[2]
    \/ c[1] = d[1] /\ c[2] = d[2] /\ c[3] > d[3]
    \/ c[1] = d[1] /\ c[2] = d[2] /\ c[3] = d[3] /\ c[4] >= d[4]

FirstMatchAt(text, i) ==
    CHOOSE c \in MatchesAt(text, i) : \A d \in MatchesAt(text, i) : Preferred(c, d)

\* str.strip()
RECURSIVE LStrip(_)
LStrip(str) ==
    IF str # "" /\ IsSpace(CharAt(str, 1)) THEN LStrip(SubSeq(str, 2, Len(str)))
    ELSE str

RECURSIVE RStrip(_)
RStrip(str) ==
    IF str # "" /\ IsSpace(CharAt(str, Len(str)))
    THEN RStrip(SubSeq(str, 1, Len(str) - 1))
    ELSE str

Strip(str) == RStrip(LStrip(str))

PageTextSource  == "page_text"
PageTextDetails == "Matched from rendered page text."

\* pattern.finditer from position pos: leftmost match, then on from its end
RECURSIVE FindIter(_, _, _)
FindIter(text, pos, campground) ==
    LET starts == { i \in pos..Len(text) : MatchesAt(text, i) # {} }
    IN  IF starts = {} THEN <<>>
        ELSE LET i == CHOOSE a \in starts : \A b \in starts : a <= b
                 m == FirstMatchAt(text, i)
             IN  <<AvailabilityRecord(campground, PageTextSource,
                        Strip(SubSeq(text, i, m[3] - 1)),
                        Strip(SubSeq(text, m[4], StatusEnd(text, m[4]) - 1)),
                        PageTextDetails)>>
                 \o FindIter(text, StatusEnd(text, m[4]), campground)

_extract_from_page_text(page_text, campground) == FindIter(page_text, 1, campground)

(***************************************************************************)
(* Bounds and inputs of the scan                                           *)
(***************************************************************************)
MaxRequests == 2    \* the longest request list of a scan in the calling process
MaxWorkerRequests == 1 \* the longest request list of a scan in a worker
MaxAccumulated == 3 \* records the observer accumulates per request
PipeCapacity == 1   \* records a queue message may hold and still fit the
                    \* pipe buffer while nobody reads the pipe

CampgroundNames == <<"Algonquin", "Killbear", "Pinery">>

\* ScanRequest
ScanRequest(name, search_url) == [name |-> name, search_url |-> search_url]

RequestAt(i) ==
    ScanRequest(CampgroundNames[i], "https://parks.test/results?resourceLocationId=1")

\* a response event: its URL, its headers, whether response.json() decodes,
\* and the decoded body
Response(url, headers, decodes, body) ==
    [url |-> url, headers |-> headers, decodes |-> decodes, body |-> body]

JsonHeaders == <<Ent("content-type", "application/json; charset=utf-8")>>
HtmlHeaders == <<Ent("content-type", "text/html")>>
NoHeaders   == <<>>

UnitsBody ==
    JMap(<<Ent("units", JList(<<
        JMap(<<Ent("unitName", JStr("Site 1")), Ent("available", JBool(TRUE))>>),
        JMap(<<Ent("siteName", JStr("Site 2")), Ent("status", JStr("Sold Out"))>>)
    >>))>>)
UnitBody ==
    JMap(<<Ent("unitName", JStr("Site 1")), Ent("available", JBool(TRUE)),
           Ent("loop", JStr("B"))>>)
LoopBody == JMap(<<Ent("loop", JStr("A"))>>)

AvailUrl  == "/api/Availability"
UnitUrl   == "/api/unit/1"
StaticUrl == "/static/app.js"

Responses ==
    { Response(AvailUrl,  JsonHeaders, TRUE,  UnitsBody),
      Response(UnitUrl,   JsonHeaders, TRUE,  UnitBody),
      Response(UnitUrl,   JsonHeaders, TRUE,  LoopBody),
      Response(AvailUrl,  JsonHeaders, FALSE, JNull),
      Response(StaticUrl, JsonHeaders, TRUE,  UnitBody),
      Response(UnitUrl,   HtmlHeaders, TRUE,  UnitBody),
      Response(AvailUrl,  NoHeaders,   TRUE,  UnitsBody) }

\* what page.inner_text("body") may return
PageTexts == { "Site 7 Loop B Available\nSITE12 sold out", "Please enable JavaScript" }

\* exceptions of the automation runtime
PlaywrightError(msg) == [type |-> "Error", msg |-> msg]
NoException == [type |-> "", msg |-> ""]

(***************************************************************************)
(* State                                                                   *)
(***************************************************************************)
VARIABLES
    platform,      \* sys.platform
    requests,      \* the argument of scan_availability
    cpc,           \* the caller: "call", "direct", "join", "alive_check",
                   \*   "join_terminated", "returned", "raised"
    result,        \* the list the caller got back
    error,         \* the message of the exception the caller got
    process,       \* the worker: "unstarted", "running", "put", "exited"
    terminated,    \* process.terminate() has been called
    feeder,        \* messages queue.put handed to the queue's feeder thread
    pipe,          \* messages written to the queue's pipe
    ipc,           \* _scan_availability_impl: "unstarted", "launch", "new_page",
                   \*   "goto", "settle", "inner_text", "close", "browser_close",
                   \*   "returned", "raised", or "dead" with its process
    req_idx,       \* the position of the loop over requests
    open_pages,    \* indices of the requests whose page is open
    api_records,   \* the list the observer extends
    all_records,   \* the aggregate
    exc,           \* the exception that left _scan_availability_impl
    nav_timeout,   \* history: <<Snapshot>> of api_records when the navigation
                   \*   of this request timed out, <<>> when it did not
    decode_failed, \* history: how a body failed to decode on this page:
                   \*   "no", "first" (before any record was accumulated)
                   \*   or "later"
    close_failed,  \* history: a page.close() raised
    accum,         \* history: <<Snapshot>> of api_records as the deduplication
                   \*   of this request read it, <<>> before that
    hist,          \* history: per request that contributed, the extraction
                   \*   path and the contribution
    blob,          \* extractor run: the decoded body given to the extractor
    extracted,     \* extractor run: the list it returned
    xpc,           \* extractor run: "ready", "done" or "off"
    base_url,      \* builder run: the base URL given to build_search_url
    settings,      \* builder run: the SearchSettings given to it
    target_url,    \* builder run: the URL it returned
    upc            \* builder run: "ready", "done" or "off"

scan_vars == <<platform, requests, cpc, result, error, process, terminated,
               feeder, pipe, ipc, req_idx, open_pages, api_records,
               all_records, exc, nav_timeout, decode_failed, close_failed,
               accum, hist>>
url_vars == <<base_url, settings, target_url, upc>>
extract_vars == <<blob, extracted, xpc, url_vars>>
vars == <<scan_vars, extract_vars>>

caller_vars == <<cpc, result, error>>
worker_vars == <<process, terminated, feeder, pipe>>
impl_vars   == <<ipc, req_idx, open_pages, api_records, all_records, exc,
                 nav_timeout, decode_failed, close_failed, accum, hist>>

(***************************************************************************)
(* The observer and the deduplication of _scan_availability_impl           *)
(***************************************************************************)
\* dict.get(key, default) on a header map or a message
DictHas(dict, key) == \E i \in DOMAIN dict : dict[i].k = key
DictGet(dict, key, default) ==
    IF DictHas(dict, key)
    THEN dict[CHOOSE i \in DOMAIN dict : dict[i].k = key].v
    ELSE default

UrlTokens == {"avail", "camp", "inventory", "site", "unit"}

\* a slip: the tokens are looked for in the URL as written
UrlMatchesCased(response) ==
    \E token \in UrlTokens : Contains(response.url, token)

UrlMatches(response) ==
    \E token \in UrlTokens : Contains(Lower(response.url), token)

IsJson(response) ==
    Contains(DictGet(response.headers, "content-type", ""), "application/json")

\* a slip: a body that fails to decode empties the accumulated records
handle_response_drops(response, request, api) ==
    IF ~UrlMatches(response) THEN api
    ELSE IF ~IsJson(response) THEN api
    ELSE IF ~response.decodes THEN <<>>
    ELSE api \o _extract_from_json_blob(response.body, request.name, response.url)

\* handle_response: the value of api_records after the observer ran on one
\* response, `request` and `api` being what the closure's variables hold
handle_response(response, request, api) ==
    IF ~UrlMatches(response) THEN api
    ELSE IF ~IsJson(response) THEN api
    ELSE IF ~response.decodes THEN api
    ELSE api \o _extract_from_json_blob(response.body, request.name, response.url)

\* key = (record.unit_name, record.status)
RecordKey(record) == <<record.unit_name, record.status>>

\* a slip: an earlier record with the same key is kept
DictPutKeepsFirst(unique, record) ==
    IF \E i \in DOMAIN unique : RecordKey(unique[i]) = RecordKey(record)
    THEN unique
    ELSE Append(unique, record)

\* unique_records[key] = record on a dict kept in insertion order
DictPut(unique, record) ==
    IF \E i \in DOMAIN unique : RecordKey(unique[i]) = RecordKey(record)
    THEN [unique EXCEPT
            ![CHOOSE i \in DOMAIN unique : RecordKey(unique[i]) = RecordKey(record)]
                = record]
    ELSE Append(unique, record)

\* the loop `for record in api_records` run on top of `unique`
RECURSIVE DedupInto(_, _)
DedupInto(unique, records) ==
    IF records = <<>> THEN unique
    ELSE DedupInto(DictPut(unique, Head(records)), Tail(records))

\* a slip: the record kept for a key stands where the key occurred last
unique_records_at_last(records) ==
    LET kept == { k \in DOMAIN records :
                    \A n \in DOMAIN records :
                        RecordKey(records[n]) = RecordKey(records[k]) => n <= k }
    IN  [i \in 1..Cardinality(kept) |->
            records[CHOOSE k \in kept : Cardinality({ m \in kept : m <= k }) = i]]

\* list(unique_records.values()) after the loop
unique_records(records) == DedupInto(<<>>, records)

\* a slip: the contribution is put in front of the aggregate
ExtendAtFront(list, more) == more \o list

\* all_records.extend(...)
Extend(list, more) == list \o more

(***************************************************************************)
(* The queue messages of _scan_worker                                      *)
(***************************************************************************)
\* dataclasses.asdict(record)
asdict(record) ==
    <<Ent("campground", record.campground), Ent("source", record.source),
      Ent("unit_name", record.unit_name), Ent("status", record.status),
      Ent("details", record.details)>>

\* AvailabilityRecord(**item)
FromDict(item) ==
    AvailabilityRecord(DictGet(item, "campground", ""), DictGet(item, "source", ""),
                       DictGet(item, "unit_name", ""), DictGet(item, "status", ""),
                       DictGet(item, "details", ""))

RecordsMessage(records) ==
    <<Ent("records", [i \in DOMAIN records |-> asdict(records[i])])>>

\* {"error": f"{type(exc).__name__}: {exc}"}
ErrorMessage(e) == <<Ent("error", e.type \o ": " \o e.msg)>>

NoResultMessage == <<Ent("error", "No scanner result returned.")>>

\* what a message takes of the pipe buffer, counted in records
MessageSize(message) ==
    IF DictHas(message, "records") THEN Len(DictGet(message, "records", <<>>)) ELSE 0

TimeoutMessage == "Playwright scan timed out in Windows worker process."

\* the message of the RuntimeError (its backquotes are written as ')
WindowsFailure(detail) ==
    "Playwright failed on Windows. "
    \o "Confirm browser binaries are installed with 'python -m playwright install chromium'. "
    \o "Details: " \o detail

(***************************************************************************)
(* build_search_url: urlparse, parse_qs, urlencode and urlunparse as the   *)
(* function uses them.  A query dict is a sequence of [k, v] entries in    *)
(* insertion order, v being the list of the key's values.                  *)
(***************************************************************************)
\* str.find(ch, from) for one character: the position, 0 when absent
Find(text, ch, from) ==
    LET hits == { i \in from..Len(text) : CharAt(text, i) = ch }
    IN  IF hits = {} THEN 0 ELSE CHOOSE i \in hits : \A j \in hits : i <= j

\* the slice text[i:] for a 1-based position i
From(text, i) == SubSeq(text, i, Len(text))

\* str.split(sep) for a one-character separator
RECURSIVE Split(_, _)
Split(text, sep) ==
    LET i == Find(text, sep, 1)
    IN  IF i = 0 THEN <<text>>
        ELSE <<SubSeq(text, 1, i - 1)>> \o Split(From(text, i + 1), sep)

\* sep.join(parts)
RECURSIVE Join(_, _)
Join(parts, sep) ==
    IF parts = <<>> THEN ""
    ELSE IF Len(parts) = 1 THEN parts[1]
    ELSE parts[1] \o sep \o Join(Tail(parts), sep)

UsesParams == {"", "ftp", "hdl", "prospero", "http", "imap", "https", "shttp",
               "rtsp", "rtsps", "rtspu", "sip", "sips", "mms", "sftp", "tel"}
UsesNetloc == {"", "ftp", "http", "gopher", "nntp", "telnet", "imap", "wais",
               "file", "mms", "https", "shttp", "snews", "prospero", "rtsp",
               "rtsps", "rtspu", "rsync", "svn", "svn+ssh", "sftp", "nfs",
               "git", "git+ssh", "ws", "wss"}

\* the text before the first occurrence of a character and the text after
\* it; the whole text and "" when the character does not occur
Cut(text, ch) ==
    LET i == Find(text, ch, 1)
    IN  IF i = 0 THEN <<text, "">> ELSE <<SubSeq(text, 1, i - 1), From(text, i + 1)>>

\* the scheme (lower-cased) and what follows its colon
SplitScheme(url) ==
    LET colon == Find(url, ":", 1)
    IN  IF /\ colon > 1
           /\ IsWord(CharAt(url, 1)) /\ CharAt(url, 1) \notin
                 {"0", "1", "2", "3", "4", "5", "6", "7", "8", "9", "_"}
           /\ \A j \in 1..(colon - 1) :
                 \/ IsWord(CharAt(url, j)) /\ CharAt(url, j) # "_"
                 \/ CharAt(url, j) \in {"+", "-", "."}
        THEN <<Lower(SubSeq(url, 1, colon - 1)), From(url, colon + 1)>>
        ELSE <<"", url>>

\* the netloc after "//", up to the first of / ? #, and what follows it
SplitNetloc(rest) ==
    LET delims == { i \in 3..Len(rest) : CharAt(rest, i) \in {"/", "?", "#"} }
        delim  == IF delims = {} THEN Len(rest) + 1
                  ELSE CHOOSE i \in delims : \A j \in delims : i <= j
    IN  IF Prefix(rest, 2) = "//"
        THEN <<SubSeq(rest, 3, delim - 1), From(rest, delim)>>
        ELSE <<"", rest>>

\* the path and the params of its last segment
SplitParams(scheme, path) ==
    LET slashes   == { i \in 1..Len(path) : CharAt(path, i) = "/" }
        lastSlash == IF slashes = {} THEN 1
                     ELSE CHOOSE i \in slashes : \A j \in slashes : j <= i
        semi      == IF scheme \in UsesParams THEN Find(path, ";", lastSlash) ELSE 0
    IN  IF semi = 0 THEN <<path, "">>
        ELSE <<SubSeq(path, 1, semi - 1), From(path, semi + 1)>>

\* urlparse(url): scheme (lower-cased), netloc, path, params of the last path
\* segment, query and fragment
urlparse(url) ==
    LET s == SplitScheme(url)
        n == SplitNetloc(s[2])
        f == Cut(n[2], "#")
        q == Cut(f[1], "?")
        p == SplitParams(s[1], q[1])
    IN  [scheme   |-> s[1],
         netloc   |-> n[1],
         path     |-> p[1],
         params   |-> p[2],
         query    |-> q[2],
         fragment |-> f[2]]

\* urlunparse(parts)
urlunparse(parts) ==
    LET url1 == IF parts.params # "" THEN parts.path \o ";" \o parts.params
                ELSE parts.path
        url2 == IF \/ parts.netloc # ""
                   \/ /\ parts.scheme # "" /\ parts.scheme \in UsesNetloc
                      /\ Prefix(url1, 2) # "//"
                THEN "//" \o parts.netloc
                        \o (IF url1 # "" /\ Prefix(url1, 1) # "/" THEN "/" ELSE "")
                        \o url1
                ELSE url1
        url3 == IF parts.scheme # "" THEN parts.scheme \o ":" \o url2 ELSE url2
        url4 == IF parts.query # "" THEN url3 \o "?" \o parts.query ELSE url3
    IN  IF parts.fragment # "" THEN url4 \o "#" \o parts.fragment ELSE url4

\* the percent escapes of the characters that occur in the inputs, as
\* <<character, two hexadecimal digits>>
PercentCodes ==
    { <<" ", "20">>, <<"#", "23">>, <<"%", "25">>, <<"&", "26">>, <<"+", "2B">>,
      <<"/", "2F">>, <<":", "3A">>, <<";", "3B">>, <<"=", "3D">>, <<"?", "3F">>,
      <<"D", "44">>, <<"~", "7E">> }

\* unquote(text): every %XX that is an escape becomes its character, in
\* either case of the digits; anything else stays
RECURSIVE unquote(_)
unquote(text) ==
    IF text = "" THEN ""
    ELSE IF /\ CharAt(text, 1) = "%" /\ Len(text) >= 3
            /\ \E pc \in PercentCodes : Lower(pc[2]) = Lower(SubSeq(text, 2, 3))
         THEN (CHOOSE pc \in PercentCodes :
                  Lower(pc[2]) = Lower(SubSeq(text, 2, 3)))[1]
                 \o unquote(From(text, 4))
         ELSE CharAt(text, 1) \o unquote(From(text, 2))

\* text.replace('+', ' ')
RECURSIVE PlusToSpace(_)
PlusToSpace(text) ==
    IF text = "" THEN ""
    ELSE (IF CharAt(text, 1) = "+" THEN " " ELSE CharAt(text, 1))
            \o PlusToSpace(From(text, 2))

\* quote_plus(text): letters, digits and _ . - ~ stay, a space becomes +,
\* any other character its percent escape
RECURSIVE quote_plus(_)
quote_plus(text) ==
    IF text = "" THEN ""
    ELSE LET c == CharAt(text, 1)
         IN  (IF IsWord(c) \/ c \in {".", "-", "~"} THEN c
              ELSE IF c = " " THEN "+"
              ELSE "%" \o (CHOOSE pc \in PercentCodes : pc[1] = c)[2])
                 \o quote_plus(From(text, 2))

\* query[key] = values
DictSet(dict, key, values) ==
    IF DictHas(dict, key)
    THEN [dict EXCEPT ![CHOOSE i \in DOMAIN dict : dict[i].k = key] = Ent(key, values)]
    ELSE Append(dict, Ent(key, values))

\* parse_qs on the pieces of a query string: a piece without "=" or with
\* nothing after it is dropped, names and values are unquoted, the values
\* of a name are collected in order under its first occurrence
RECURSIVE ParsePieces(_, _)
ParsePieces(pieces, dict) ==
    IF pieces = <<>> THEN dict
    ELSE LET piece == Head(pieces)
             eq    == Find(piece, "=", 1)
             name  == unquote(PlusToSpace(SubSeq(piece, 1, eq - 1)))
             value == unquote(PlusToSpace(From(piece, eq + 1)))
         IN  ParsePieces(Tail(pieces),
                IF piece = "" \/ eq = 0 \/ eq = Len(piece) THEN dict
                ELSE DictSet(dict, name, Append(DictGet(dict, name, <<>>), value)))

\* parse_qs(qs)
parse_qs(qs) == IF qs = "" THEN <<>> ELSE ParsePieces(Split(qs, "&"), <<>>)

\* the key=value pieces urlencode(query, doseq=True) joins
RECURSIVE EncodedPieces(_)
EncodedPieces(query) ==
    IF query = <<>> THEN <<>>
    ELSE [i \in DOMAIN Head(query).v |->
             quote_plus(Head(query).k) \o "=" \o quote_plus(Head(query).v[i])]
         \o EncodedPieces(Tail(query))

\* urlencode(query, doseq=True)
urlencode(query) == Join(EncodedPieces(query), "&")

\* str(n) for an integer
RECURSIVE PyStrInt(_)
PyStrInt(n) ==
    IF n < 0 THEN "-" \o PyStrInt(0 - n)
    ELSE IF n < 10 THEN SubSeq("0123456789", n + 1, n + 1)
    ELSE PyStrInt(n \div 10) \o PyStrInt(n % 10)

\* the decimal digits of n, zero-filled to a width
RECURSIVE ZeroFill(_, _)
ZeroFill(n, width) ==
    IF Len(PyStrInt(n)) >= width THEN PyStrInt(n)
    ELSE "0" \o ZeroFill(n, width - 1)

\* datetime.date and date.isoformat()
Date(year, month, day) == [year |-> year, month |-> month, day |-> day]
isoformat(d) ==
    ZeroFill(d.year, 4) \o "-" \o ZeroFill(d.month, 2) \o "-" \o ZeroFill(d.day, 2)

\* SearchSettings; nights is <<>> for None, <<n>> for an integer
SearchSettings(start_date, end_date, party_size, equipment_id, sub_equipment_id, nights) ==
    [start_date |-> start_date, end_date |-> end_date, party_size |-> party_size,
     equipment_id |-> equipment_id, sub_equipment_id |-> sub_equipment_id,
     nights |-> nights]

\* a slip: a managed key that the base URL has keeps its old values
DictSetAppends(dict, key, values) ==
    DictSet(dict, key, DictGet(dict, key, <<>>) \o values)

\* query[key] = [value]
SetQuery(dict, key, values) == DictSet(dict, key, values)

build_search_url(base, s) ==
    LET parsed == urlparse(base)
        q0 == parse_qs(parsed.query)
        q1 == SetQuery(q0, "startDate", <<isoformat(s.start_date)>>)
        q2 == SetQuery(q1, "endDate", <<isoformat(s.end_date)>>)
        q3 == SetQuery(q2, "partySize", <<PyStrInt(s.party_size)>>)
        q4 == SetQuery(q3, "equipmentId", <<s.equipment_id>>)
        q5 == SetQuery(q4, "subEquipmentId", <<s.sub_equipment_id>>)
        q6 == IF s.nights # <<>>
              THEN SetQuery(q5, "nights", <<PyStrInt(s.nights[1])>>)
              ELSE q5
    IN  urlunparse([parsed EXCEPT !.query = urlencode(q6)])

(***************************************************************************)
(* Init                                                                    *)
(***************************************************************************)
RequestLists == { [i \in 1..n |-> RequestAt(i)] : n \in 0..MaxRequests }

WorkerRequestLists == { [i \in 1..n |-> RequestAt(i)] : n \in 0..MaxWorkerRequests }

\* no run of build_search_url on its own
UrlIdle == base_url = "" /\ settings = <<>> /\ target_url = "" /\ upc = "off"

ScanIdle ==
    /\ cpc = "call" /\ result = <<>> /\ error = ""
    /\ process = "unstarted" /\ terminated = FALSE
    /\ feeder = <<>> /\ pipe = <<>>
    /\ ipc = "unstarted" /\ req_idx = 0 /\ open_pages = {}
    /\ api_records = <<>> /\ all_records = <<>>
    /\ exc = NoException
    /\ nav_timeout = <<>> /\ decode_failed = "no" /\ close_failed = FALSE
    /\ accum = <<>> /\ hist = <<>>

\* a call of scan_availability off win32
Init ==
    /\ platform = "linux"
    /\ requests \in RequestLists
    /\ ScanIdle
    /\ blob = JNull /\ extracted = <<>> /\ xpc = "off"
    /\ UrlIdle

\* a call of scan_availability on win32
InitWorker ==
    /\ platform = "win32"
    /\ requests \in WorkerRequestLists
    /\ ScanIdle
    /\ blob = JNull /\ extracted = <<>> /\ xpc = "off"
    /\ UrlIdle

(***************************************************************************)
(* scan_availability and _scan_availability_impl                           *)
(***************************************************************************)
\* scan_availability: on win32 build the payload, start the worker and join
\* it, otherwise run the scan in the calling process
ScanAvailability ==
    /\ cpc = "call"
    /\ IF platform = "win32"
       THEN cpc' = "join" /\ process' = "running"
       ELSE cpc' = "direct" /\ process' = process
    /\ ipc' = "launch"
    /\ UNCHANGED <<platform, requests, result, error, terminated, feeder, pipe,
                   req_idx, open_pages, api_records, all_records, exc,
                   nav_timeout, decode_failed, close_failed, accum, hist, extract_vars>>

\* the process that executes _scan_availability_impl is executing
ImplRuns == cpc = "direct" \/ process = "running"

ImplFrame == <<platform, requests, caller_vars, worker_vars, extract_vars>>

\* history: the records the observer had accumulated for a request
Snapshot(request, records) == [request |-> request, records |-> records]

\* sync_playwright(), chromium.launch and new_context succeed
Launch ==
    /\ ImplRuns /\ ipc = "launch"
    /\ req_idx' = 1
    /\ ipc' = IF requests = <<>> THEN "browser_close" ELSE "new_page"
    /\ UNCHANGED <<ImplFrame, open_pages, api_records, all_records, exc,
                   nav_timeout, decode_failed, close_failed, accum, hist>>

Raise(e) == ipc' = "raised" /\ exc' = e

\* the automation runtime fails to start
LaunchFails ==
    /\ ImplRuns /\ ipc = "launch"
    /\ Raise(PlaywrightError("Executable doesn't exist"))
    /\ UNCHANGED <<ImplFrame, req_idx, open_pages, api_records, all_records,
                   nav_timeout, decode_failed, close_failed, accum, hist>>

\* context.new_page(), api_records = [], page.on("response", handle_response)
NewPage ==
    /\ ImplRuns /\ ipc = "new_page"
    /\ open_pages' = open_pages \cup {req_idx}
    /\ api_records' = <<>>
    /\ nav_timeout' = <<>> /\ decode_failed' = "no" /\ accum' = <<>>
    /\ ipc' = "goto"
    /\ UNCHANGED <<ImplFrame, req_idx, all_records, exc, close_failed, hist>>

\* a response event of an open page is dispatched while the scan waits in
\* page.goto or page.wait_for_timeout; the closure reads the current request
\* and the current api_records.  (An event dispatched during a later call on
\* the page extends a list that is not read again; such events are left out.)
HandleResponse(page, response) ==
    /\ ImplRuns /\ ipc \in {"goto", "settle"}
    /\ page \in open_pages
    /\ api_records' = handle_response(response, requests[req_idx], api_records)
    /\ Len(api_records') <= MaxAccumulated
    /\ decode_failed' =
          IF UrlMatches(response) /\ IsJson(response) /\ ~response.decodes
          THEN (IF api_records = <<>> /\ decode_failed # "later" THEN "first" ELSE "later")
          ELSE decode_failed
    /\ UNCHANGED <<ImplFrame, ipc, req_idx, open_pages, all_records, exc,
                   nav_timeout, close_failed, accum, hist>>

\* a slip: the records are deduplicated as soon as page.goto returns
GotoReturnsAndDedups ==
    /\ ImplRuns /\ ipc = "goto"
    /\ LET unique == unique_records(api_records)
       IN  IF unique # <<>>
           THEN /\ all_records' = Extend(all_records, unique)
                /\ hist' = Append(hist, [request |-> req_idx, contribution |-> unique,
                                         path |-> "structured"])
                /\ ipc' = "close"
           ELSE /\ all_records' = all_records
                /\ hist' = hist
                /\ ipc' = "inner_text"
    /\ accum' = <<Snapshot(req_idx, api_records)>>
    /\ UNCHANGED <<ImplFrame, req_idx, open_pages, api_records, exc,
                   nav_timeout, decode_failed, close_failed>>

\* page.goto returns
GotoReturns ==
    /\ ImplRuns /\ ipc = "goto"
    /\ ipc' = "settle"
    /\ UNCHANGED <<ImplFrame, req_idx, open_pages, api_records, all_records,
                   exc, nav_timeout, decode_failed, close_failed, accum, hist>>

PlaywrightTimeoutError == [type |-> "TimeoutError", msg |-> "Timeout exceeded."]

\* a slip: the navigation timeout is not caught
GotoTimeoutPropagates ==
    /\ ImplRuns /\ ipc = "goto"
    /\ ipc' = "raised" /\ exc' = PlaywrightTimeoutError
    /\ nav_timeout' = <<Snapshot(req_idx, api_records)>>
    /\ UNCHANGED <<ImplFrame, req_idx, open_pages, api_records, all_records,
                   decode_failed, close_failed, accum, hist>>

\* page.goto raises PlaywrightTimeoutError: except ...: pass
GotoTimesOut ==
    /\ ImplRuns /\ ipc = "goto"
    /\ ipc' = "settle"
    /\ nav_timeout' = <<Snapshot(req_idx, api_records)>>
    /\ UNCHANGED <<ImplFrame, req_idx, open_pages, api_records, all_records,
                   exc, decode_failed, close_failed, accum, hist>>

\* page.goto raises another error of the automation runtime
GotoFails ==
    /\ ImplRuns /\ ipc = "goto"
    /\ Raise(PlaywrightError("net::ERR_NAME_NOT_RESOLVED"))
    /\ UNCHANGED <<ImplFrame, req_idx, open_pages, api_records, all_records,
                   nav_timeout, decode_failed, close_failed, accum, hist>>

HistEntry(contribution, path) ==
    [request |-> req_idx, contribution |-> contribution, path |-> path]

\* a slip: the page text is read although structured records were found
SettleEndsAlsoReadsText ==
    /\ ImplRuns /\ ipc = "settle"
    /\ LET unique == unique_records(api_records)
       IN  IF unique # <<>>
           THEN /\ all_records' = Extend(all_records, unique)
                /\ hist' = Append(hist, HistEntry(unique, "structured"))
           ELSE /\ all_records' = all_records
                /\ hist' = hist
    /\ ipc' = "inner_text"
    /\ accum' = <<Snapshot(req_idx, api_records)>>
    /\ UNCHANGED <<ImplFrame, req_idx, open_pages, api_records, exc,
                   nav_timeout, decode_failed, close_failed>>

\* page.wait_for_timeout(3_000) returns; deduplicate; a non-empty
\* unique_records is the contribution, otherwise go and read the page text
SettleEnds ==
    /\ ImplRuns /\ ipc = "settle"
    /\ LET unique == unique_records(api_records)
       IN  IF unique # <<>>
           THEN /\ all_records' = Extend(all_records, unique)
                /\ hist' = Append(hist, HistEntry(unique, "structured"))
                /\ ipc' = "close"
           ELSE /\ all_records' = all_records
                /\ hist' = hist
                /\ ipc' = "inner_text"
    /\ accum' = <<Snapshot(req_idx, api_records)>>
    /\ UNCHANGED <<ImplFrame, req_idx, open_pages, api_records, exc,
                   nav_timeout, decode_failed, close_failed>>

\* page.inner_text("body") returns and _extract_from_page_text runs on it
InnerText(text) ==
    /\ ImplRuns /\ ipc = "inner_text"
    /\ LET found == _extract_from_page_text(text, requests[req_idx].name)
       IN  /\ all_records' = Extend(all_records, found)
           /\ hist' = Append(hist, HistEntry(found, "text"))
    /\ ipc' = "close"
    /\ UNCHANGED <<ImplFrame, req_idx, open_pages, api_records, exc,
                   nav_timeout, decode_failed, close_failed, accum>>

\* a slip: the page of a finished request stays open
PageCloseLeavesOpen ==
    /\ ImplRuns /\ ipc = "close"
    /\ open_pages' = open_pages
    /\ IF req_idx < Len(requests)
       THEN req_idx' = req_idx + 1 /\ ipc' = "new_page"
       ELSE req_idx' = req_idx /\ ipc' = "browser_close"
    /\ UNCHANGED <<ImplFrame, api_records, all_records, exc, nav_timeout,
                   decode_failed, close_failed, accum, hist>>

\* page.close() returns; next request, or browser.close() after the last
PageClose ==
    /\ ImplRuns /\ ipc = "close"
    /\ open_pages' = open_pages \ {req_idx}
    /\ IF req_idx < Len(requests)
       THEN req_idx' = req_idx + 1 /\ ipc' = "new_page"
       ELSE req_idx' = req_idx /\ ipc' = "browser_close"
    /\ UNCHANGED <<ImplFrame, api_records, all_records, exc, nav_timeout,
                   decode_failed, close_failed, accum, hist>>

\* page.close() raises: nothing catches it
PageCloseFails ==
    /\ ImplRuns /\ ipc = "close"
    /\ Raise(PlaywrightError("Target page, context or browser has been closed"))
    /\ close_failed' = TRUE
    /\ UNCHANGED <<ImplFrame, req_idx, open_pages, api_records, all_records,
                   nav_timeout, decode_failed, accum, hist>>

\* browser.close(), leave the with block, return all_records
BrowserClose ==
    /\ ImplRuns /\ ipc = "browser_close"
    /\ ipc' = "returned"
    /\ UNCHANGED <<ImplFrame, req_idx, open_pages, api_records, all_records,
                   exc, nav_timeout, decode_failed, close_failed, accum, hist>>

\* scan_availability off win32: the caller gets what the scan returned
DirectReturns ==
    /\ cpc = "direct" /\ ipc = "returned"
    /\ cpc' = "returned" /\ result' = all_records
    /\ UNCHANGED <<platform, requests, error, worker_vars, impl_vars, extract_vars>>

\* scan_availability off win32: the exception reaches the caller
DirectRaises ==
    /\ cpc = "direct" /\ ipc = "raised"
    /\ cpc' = "raised" /\ error' = exc.type \o ": " \o exc.msg
    /\ UNCHANGED <<platform, requests, result, worker_vars, impl_vars, extract_vars>>

(***************************************************************************)
(* _scan_worker, in the worker process                                     *)
(***************************************************************************)
WorkerFrame == <<platform, requests, caller_vars, impl_vars, extract_vars>>

\* the scan a worker was running goes with the worker's memory
DiesWithScan ==
    IF process = "running"
    THEN /\ ipc' = "dead" /\ req_idx' = 0 /\ open_pages' = {}
         /\ api_records' = <<>> /\ all_records' = <<>>
         /\ exc' = NoException
         /\ nav_timeout' = <<>> /\ decode_failed' = "no" /\ close_failed' = FALSE
         /\ accum' = <<>> /\ hist' = <<>>
    ELSE UNCHANGED impl_vars

\* queue.put({"records": [asdict(record) for record in records]})
WorkerPutsRecords ==
    /\ process = "running" /\ ipc = "returned"
    /\ feeder' = Append(feeder, RecordsMessage(all_records))
    /\ process' = "put"
    /\ UNCHANGED <<WorkerFrame, terminated, pipe>>

\* a slip: on an exception the records gathered so far are put
WorkerPutsPartialRecords ==
    /\ process = "running" /\ ipc = "raised"
    /\ feeder' = Append(feeder, RecordsMessage(all_records))
    /\ process' = "put"
    /\ UNCHANGED <<platform, requests, caller_vars, impl_vars, extract_vars,
                   terminated, pipe>>

\* except Exception as exc: queue.put({"error": ...})
WorkerPutsError ==
    /\ process = "running" /\ ipc = "raised"
    /\ feeder' = Append(feeder, ErrorMessage(exc))
    /\ process' = "put"
    /\ UNCHANGED <<WorkerFrame, terminated, pipe>>

\* the queue's feeder thread writes a message to the pipe; nobody reads the
\* pipe before the worker has exited, so the write completes only when the
\* message fits the pipe buffer
FeederFlushes ==
    /\ process = "put" /\ feeder # <<>>
    /\ MessageSize(Head(feeder)) <= PipeCapacity
    /\ pipe' = Append(pipe, Head(feeder))
    /\ feeder' = Tail(feeder)
    /\ UNCHANGED <<WorkerFrame, process, terminated>>

\* the worker exits after _scan_worker returned, which waits for the feeder
\* thread to have written everything
WorkerExits ==
    /\ process = "put" /\ feeder = <<>>
    /\ process' = "exited"
    /\ UNCHANGED <<WorkerFrame, terminated, feeder, pipe>>

\* the worker dies without reaching queue.put or before the feeder wrote:
\* a crash, a kill from outside, an exception that is not an Exception
WorkerCrashes ==
    /\ ~terminated /\ process \in {"running", "put"}
    /\ process' = "exited"
    /\ feeder' = <<>>
    /\ DiesWithScan
    /\ UNCHANGED <<platform, requests, caller_vars, extract_vars, terminated, pipe>>

\* process.terminate() takes effect
WorkerIsTerminated ==
    /\ terminated /\ process \in {"running", "put"}
    /\ process' = "exited"
    /\ feeder' = <<>>
    /\ DiesWithScan
    /\ UNCHANGED <<platform, requests, caller_vars, extract_vars, terminated, pipe>>

(***************************************************************************)
(* _scan_availability_windows_subprocess, in the calling process           *)
(***************************************************************************)
ParentFrame == <<platform, requests, impl_vars, extract_vars>>

\* process.join(120) returns because the worker exited
JoinReturns ==
    /\ cpc = "join" /\ process = "exited"
    /\ cpc' = "alive_check"
    /\ UNCHANGED <<ParentFrame, result, error, worker_vars>>

\* a slip: the join has no timeout
JoinWithoutTimeout ==
    /\ cpc = "join" /\ process = "exited"
    /\ cpc' = "alive_check"
    /\ UNCHANGED <<platform, requests, impl_vars, extract_vars, result, error,
                   worker_vars>>

\* process.join(120) returns because 120 seconds passed
JoinTimesOut ==
    /\ cpc = "join" /\ process # "exited"
    /\ cpc' = "alive_check"
    /\ UNCHANGED <<ParentFrame, result, error, worker_vars>>

\* if process.is_alive(): process.terminate()
TerminateAlive ==
    /\ cpc = "alive_check" /\ process # "exited"
    /\ terminated' = TRUE
    /\ cpc' = "join_terminated"
    /\ UNCHANGED <<ParentFrame, result, error, process, feeder, pipe>>

\* a slip: the timeout error is raised without process.join()
RaisesWithoutJoin ==
    /\ cpc = "join_terminated"
    /\ cpc' = "raised"
    /\ error' = TimeoutMessage
    /\ UNCHANGED <<platform, requests, impl_vars, extract_vars, result,
                   worker_vars>>

\* process.join() returns, raise RuntimeError(timed out)
JoinTerminatedReturns ==
    /\ cpc = "join_terminated" /\ process = "exited"
    /\ cpc' = "raised"
    /\ error' = TimeoutMessage
    /\ UNCHANGED <<ParentFrame, result, worker_vars>>

\* result = queue.get() if not queue.empty() else {"error": ...}
QueueResult(q) == IF q # <<>> THEN Head(q) ELSE NoResultMessage

\* the worker is not alive: read the queue, raise on "error", otherwise
\* return the records
ReadResult ==
    /\ cpc = "alive_check" /\ process = "exited"
    /\ LET res == QueueResult(pipe)
       IN  IF DictHas(res, "error")
           THEN /\ cpc' = "raised"
                /\ error' = WindowsFailure(DictGet(res, "error", ""))
                /\ result' = result
           ELSE /\ cpc' = "returned"
                /\ result' = [i \in DOMAIN DictGet(res, "records", <<>>) |->
                                FromDict(DictGet(res, "records", <<>>)[i])]
                /\ error' = error
    /\ pipe' = IF pipe # <<>> THEN Tail(pipe) ELSE pipe
    /\ UNCHANGED <<ParentFrame, process, terminated, feeder>>

(***************************************************************************)
(* The scan                                                                *)
(***************************************************************************)
\* the steps of _scan_availability_impl
ImplNext ==
    \/ Launch
    \/ LaunchFails
    \/ NewPage
    \/ \E page \in open_pages, response \in Responses :
          HandleResponse(page, response)
    \/ GotoReturns
    \/ GotoTimesOut
    \/ GotoFails
    \/ SettleEnds
    \/ \E text \in PageTexts : InnerText(text)
    \/ PageClose
    \/ PageCloseFails
    \/ BrowserClose

\* scan_availability off win32
Next ==
    \/ ScanAvailability
    \/ ImplNext
    \/ DirectReturns
    \/ DirectRaises

\* scan_availability on win32
NextWorker ==
    \/ ScanAvailability
    \/ ImplNext
    \/ WorkerPutsRecords
    \/ WorkerPutsError
    \/ FeederFlushes
    \/ WorkerExits
    \/ WorkerCrashes
    \/ WorkerIsTerminated
    \/ JoinReturns
    \/ JoinTimesOut
    \/ TerminateAlive
    \/ JoinTerminatedReturns
    \/ ReadResult

Spec == Init /\ [][Next]_vars

SpecWorker == InitWorker /\ [][NextWorker]_vars

\* scan_availability on win32 with what its scheduling guarantees: the
\* calling process runs (a call starts, join(120) returns on exit or after
\* 120 seconds, the statements after it execute, a non-empty queue yields its
\* message) and process.terminate() kills the worker.  Nothing is assumed
\* about the worker: it may stop anywhere and stay there.
SpecWorkerFair ==
    /\ SpecWorker
    /\ WF_vars(ScanAvailability)
    /\ WF_vars(JoinReturns \/ JoinTimesOut)
    /\ WF_vars(TerminateAlive)
    /\ WF_vars(ReadResult)
    /\ WF_vars(WorkerIsTerminated)
    /\ WF_vars(JoinTerminatedReturns)

(***************************************************************************)
(* The structured extractor on its own: one decoded body in, one list out  *)
(***************************************************************************)
\* the name-like entries a node may carry
NameParts ==
    { <<>>,
      <<Ent("name", JStr("Site 1"))>>,
      <<Ent("Name", JStr("Site 1"))>>,
      <<Ent("SITE", JStr("Site 3"))>>,
      <<Ent("name", JStr("Lot")), Ent("unitName", JStr("Site 1"))>>,
      <<Ent("unitName", JStr("")), Ent("siteName", JStr("Site 2"))>>,
      <<Ent("site", JNum("0")), Ent("name", JNull)>> }

\* the status-like entries a node may carry
StatusParts ==
    { <<>>,
      <<Ent("status", JStr("Sold Out"))>>,
      <<Ent("status", JBool(FALSE)), Ent("available", JBool(TRUE))>>,
      <<Ent("status", JStr("")), Ent("isAvailable", JBool(TRUE))>>,
      <<Ent("availability", JNum("0")), Ent("available", JBool(TRUE))>>,
      <<Ent("available", JNull), Ent("isAvailable", JBool(TRUE))>>,
      <<Ent("isAvailable", JBool(FALSE))>>,
      <<Ent("availability", JStr("Open")), Ent("status", JStr("Closed"))>>,
      <<Ent("Status", JStr("Available"))>>,
      <<Ent("AVAILABLE", JBool(TRUE))>> }

\* entries that are neither
OtherParts ==
    { <<>>,
      <<Ent("loop", JStr("A"))>>,
      <<Ent("names", JStr("x")), Ent("state", JStr("y"))>> }

FlatNodes ==
    { JMap(np \o sp \o op) : np \in NameParts, sp \in StatusParts, op \in OtherParts }

\* nodes put inside lists and inside other nodes
InnerNodes ==
    { JMap(<<Ent("unitName", JStr("Site 101")), Ent("available", JBool(TRUE)),
             Ent("loop", JStr("A"))>>),
      JMap(<<Ent("siteName", JStr("Site 202")), Ent("status", JStr("Sold Out")),
             Ent("loop", JStr("B"))>>),
      JMap(<<Ent("loop", JStr("C"))>>) }

NestedBlobs ==
    { JMap(<<Ent("units", JList(<<a, b>>))>>) : a \in InnerNodes, b \in InnerNodes }
    \cup { JMap(<<Ent("name", JStr("Loop A")), Ent("status", JStr("Open")),
                  Ent("site", a)>>) : a \in InnerNodes }
    \cup { JList(<<a, JList(<<JStr("x"), b>>)>>) : a \in InnerNodes, b \in InnerNodes }

ScalarBlobs == { JNull, JStr("Site 1 Available"), JNum("0"), JBool(TRUE), JList(<<>>) }

Blobs == FlatNodes \cup NestedBlobs \cup ScalarBlobs

ExtractCampground == "Algonquin"
ExtractSource     == "https://example.test/api"

InitExtract ==
    /\ platform = "linux" /\ requests = <<>>
    /\ ScanIdle
    /\ blob \in Blobs /\ extracted = <<>> /\ xpc = "ready"
    /\ UrlIdle

\* records = _extract_from_json_blob(blob, campground, source)
Extract ==
    /\ xpc = "ready"
    /\ extracted' = _extract_from_json_blob(blob, ExtractCampground, ExtractSource)
    /\ xpc' = "done"
    /\ UNCHANGED <<blob, scan_vars, url_vars>>

SpecExtract == InitExtract /\ [][Extract]_vars

(***************************************************************************)
(* The URL builder on its own: one base URL and one settings in, one URL   *)
(* out                                                                     *)
(***************************************************************************)
BaseUrls ==
    LET heads     == { "https://parks.test/results", "HTTPS://Parks.Test/results",
                       "https://parks.test", "/results" }
        queries   == { "", "?resourceLocationId=123&partySize=1",
                       "?partySize=1&partySize=2&nights=5&nights=6",
                       "?a=1&b=2&a=3",
                       "?view=&x=1",
                       "?flag&x=1",
                       "?x=a%20b&y=%7E",
                       "?start%44ate=0&x=1",
                       "?equipmentId=9&subEquipmentId=8&startDate=x&endDate=y&tag=a.b" }
        fragments == { "", "#top" }
    IN  { h \o q \o f : h \in heads, q \in queries, f \in fragments }

SettingsInputs ==
    { SearchSettings(Date(2026, 7, 10), Date(2026, 7, 12), 4, "-32768", "-32765", <<2>>),
      SearchSettings(Date(2026, 7, 10), Date(2026, 7, 12), 4, "a b", "", <<>>),
      SearchSettings(Date(987, 1, 5), Date(2026, 12, 31), 12, "x/y", "~", <<0>>) }

InitUrl ==
    /\ platform = "linux" /\ requests = <<>>
    /\ ScanIdle
    /\ blob = JNull /\ extracted = <<>> /\ xpc = "off"
    /\ base_url \in BaseUrls /\ settings \in SettingsInputs
    /\ target_url = "" /\ upc = "ready"

\* target_url = build_search_url(base_url, settings)
BuildSearchUrl ==
    /\ upc = "ready"
    /\ target_url' = build_search_url(base_url, settings)
    /\ upc' = "done"
    /\ UNCHANGED <<base_url, settings, scan_vars, blob, extracted, xpc>>

SpecUrl == InitUrl /\ [][BuildSearchUrl]_vars

(***************************************************************************)
(* Properties                                                              *)
(***************************************************************************)
IsPrefix(a, b) == Len(a) <= Len(b) /\ SubSeq(b, 1, Len(a)) = a

\* the position in the request list of the request named by a record
RequestOf(record) == CHOOSE i \in DOMAIN requests : requests[i].name = record.campground

Contributions == [i \in DOMAIN hist |-> hist[i].contribution]

RECURSIVE ConcatAll(_)
ConcatAll(ss) == IF ss = <<>> THEN <<>> ELSE Head(ss) \o ConcatAll(Tail(ss))

\* C1: the aggregate is the concatenation of the requests' contributions in
\* request order: the contributions recorded so far belong to increasing
\* requests, each holds only records of its own request, the aggregate is
\* their concatenation (so a record of an earlier request precedes every
\* record of a later one), and a scan that returns has taken a contribution,
\* possibly empty, from every request.
C1_OutputInRequestOrder ==
    /\ all_records = ConcatAll(Contributions)
    /\ \A i, j \in DOMAIN hist : i < j => hist[i].request < hist[j].request
    /\ \A i \in DOMAIN hist : \A k \in DOMAIN hist[i].contribution :
          hist[i].contribution[k].campground = requests[hist[i].request].name
    /\ \A m, n \in DOMAIN all_records :
          m < n => RequestOf(all_records[m]) <= RequestOf(all_records[n])
    /\ ipc = "returned" => [i \in DOMAIN hist |-> hist[i].request]
                              = [i \in DOMAIN requests |-> i]
    /\ cpc = "returned" => result = all_records

C1_Witness ==
    /\ ipc = "returned" /\ cpc = "returned"
    /\ \E i, j \in DOMAIN hist :
          i < j /\ hist[i].contribution # <<>> /\ hist[j].contribution # <<>>

\* C2: a request contributes through exactly one extraction path: a
\* structured contribution is non-empty and holds no record of source
\* "page_text", a text contribution holds only such records, no request
\* contributes twice; when the deduplication read a non-empty api_records the
\* contribution is the deduplicated structured set and the page text is not
\* read, and a text contribution exists only when it read an empty one.
C2_OneExtractionPath ==
    /\ \A i \in DOMAIN hist :
          LET c == hist[i].contribution
          IN  /\ hist[i].path = "structured" =>
                    c # <<>> /\ \A k \in DOMAIN c : c[k].source # PageTextSource
              /\ hist[i].path = "text" =>
                    \A k \in DOMAIN c : c[k].source = PageTextSource
    /\ \A i, j \in DOMAIN hist : i # j => hist[i].request # hist[j].request
    /\ accum # <<>> =>
          LET a == accum[1]
          IN  /\ a.records # <<>> =>
                    /\ ipc # "inner_text"
                    /\ \E i \in DOMAIN hist :
                          /\ hist[i].request = a.request
                          /\ hist[i].path = "structured"
                          /\ hist[i].contribution = unique_records(a.records)
              /\ \A i \in DOMAIN hist :
                    (hist[i].request = a.request /\ hist[i].path = "text")
                        => a.records = <<>>

C2_Witness ==
    \E i, j \in DOMAIN hist :
        /\ hist[i].path = "structured"
        /\ hist[j].path = "text" /\ hist[j].contribution # <<>>

\* the last position in records that holds the key
LastIndexOf(records, key) ==
    CHOOSE m \in DOMAIN records :
        /\ RecordKey(records[m]) = key
        /\ \A n \in DOMAIN records : RecordKey(records[n]) = key => n <= m

\* C3: in a structured contribution no two records share (unit_name,
\* status), the pairs are those of the accumulated records, and the record
\* kept for a pair is the last one accumulated with it, with that record's
\* source and details.
C3_DedupKeepsLast ==
    (accum # <<>> /\ accum[1].records # <<>>) =>
        \E i \in DOMAIN hist :
            /\ hist[i].request = accum[1].request
            /\ LET u == hist[i].contribution
                   a == accum[1].records
               IN  /\ \A x, y \in DOMAIN u :
                         x # y => RecordKey(u[x]) # RecordKey(u[y])
                   /\ {RecordKey(u[x]) : x \in DOMAIN u}
                         = {RecordKey(a[k]) : k \in DOMAIN a}
                   /\ \A x \in DOMAIN u : u[x] = a[LastIndexOf(a, RecordKey(u[x]))]

C3_Witness ==
    /\ accum # <<>>
    /\ \E i \in DOMAIN hist :
          /\ hist[i].request = accum[1].request
          /\ \E k, m \in DOMAIN accum[1].records :
                /\ k < m
                /\ RecordKey(accum[1].records[k]) = RecordKey(accum[1].records[m])
                /\ accum[1].records[k].details # accum[1].records[m].details
                /\ accum[1].records[k].source # accum[1].records[m].source
                /\ m = LastIndexOf(accum[1].records, RecordKey(accum[1].records[m]))
                /\ \E x \in DOMAIN hist[i].contribution :
                      hist[i].contribution[x] = accum[1].records[m]

\* C4: through the worker the caller gets the complete list or one error:
\* a returned list is the aggregate of a scan that ran to its end over every
\* request, with no error; a raise carries a message and no list; a worker
\* that raised, died or was terminated never leads to a returned list.
C4_AllOrError ==
    /\ cpc = "returned" =>
          /\ ipc = "returned" /\ ~terminated
          /\ result = all_records
          /\ [i \in DOMAIN hist |-> hist[i].request] = [i \in DOMAIN requests |-> i]
          /\ error = ""
    /\ cpc = "raised" => result = <<>> /\ error # ""
    /\ cpc # "returned" => result = <<>>
    /\ (ipc # "returned" /\ process = "exited") => cpc # "returned"

C4_Witness ==
    /\ cpc = "raised"
    /\ ipc = "raised" /\ all_records # <<>>
    /\ error = WindowsFailure(ErrorMessage(exc)[1].v)

\* C5: once is_alive() held after join(120) the worker is terminated: the
\* caller can only wait for its death and then raise the timeout error,
\* without any list, whatever the worker had gathered or put; and whenever
\* the call through the worker has returned or raised the worker is dead.
C5_TimeoutTerminates ==
    /\ terminated => cpc \in {"join_terminated", "raised"}
    /\ (terminated /\ cpc = "raised") =>
          error = TimeoutMessage /\ result = <<>>
    /\ cpc \in {"returned", "raised"} => process = "exited"

C5_Witness ==
    /\ terminated /\ cpc = "raised" /\ process = "exited"
    /\ all_records # <<>> /\ pipe # <<>>
    /\ error = TimeoutMessage

\* C6: a navigation timeout is not fatal: it is never the exception that
\* ends the scan; the records accumulated when it struck stay at the front
\* of api_records through the settle wait, the deduplication reads them, the
\* request then contributes as any other (the deduplicated set when there
\* is one, the page text otherwise), and a scan that returns has taken a
\* contribution from every request.
C6_NavigationTimeoutNotFatal ==
    /\ exc.type # "TimeoutError"
    /\ nav_timeout # <<>> =>
          LET t == nav_timeout[1]
          IN  /\ (ipc = "raised" /\ req_idx = t.request) =>
                    exc.msg = "Target page, context or browser has been closed"
              /\ (accum = <<>> /\ req_idx = t.request) =>
                    ipc = "settle" /\ IsPrefix(t.records, api_records)
              /\ accum # <<>> =>
                    /\ accum[1].request = t.request
                    /\ IsPrefix(t.records, accum[1].records)
                    /\ accum[1].records # <<>> =>
                          \E i \in DOMAIN hist :
                              /\ hist[i].request = t.request
                              /\ hist[i].contribution = unique_records(accum[1].records)
                    /\ (accum[1].records = <<>> /\ ipc # "inner_text") =>
                          \E i \in DOMAIN hist :
                              hist[i].request = t.request /\ hist[i].path = "text"
    /\ ipc = "returned" =>
          [i \in DOMAIN hist |-> hist[i].request] = [i \in DOMAIN requests |-> i]

\* the first request timed out with records captured, contributed them, and
\* the scan went on to the second request
C6_Witness ==
    /\ nav_timeout # <<>>
    /\ nav_timeout[1].request = 1 /\ nav_timeout[1].records # <<>>
    /\ req_idx = 2 /\ ipc = "new_page"
    /\ hist # <<>> /\ hist[1].request = 1
    /\ hist[1].contribution = unique_records(nav_timeout[1].records)

\* C7: a failure closing a page does not abort the scan.
C7_CloseFailureDoesNotAbort ==
    close_failed => ipc # "raised" /\ cpc # "raised"

\* a response whose body response.json() is asked for and fails to decode
DecodeFails(response) ==
    UrlMatches(response) /\ IsJson(response) /\ ~response.decodes

\* C8: a response whose body fails to decode is skipped and nothing else: the
\* event leaves the accumulated records, the aggregate and the position of
\* the scan as they were and raises nothing, so records accumulated before it
\* stay and records of later responses are added after them.
C8_DecodeFailureSkipsOnlyThatResponse ==
    [][ \A page \in open_pages, response \in Responses :
            (HandleResponse(page, response) /\ DecodeFails(response)) =>
                /\ api_records' = api_records
                /\ all_records' = all_records
                /\ ipc' = ipc /\ exc' = exc /\ hist' = hist ]_vars

\* a decode failure struck first, a later response of the same request was
\* accumulated and the request contributed its records
C8_Witness ==
    /\ decode_failed = "first"
    /\ accum # <<>> /\ accum[1].records # <<>>
    /\ \E i \in DOMAIN hist :
          hist[i].request = accum[1].request /\ hist[i].path = "structured"

\* the spellings under which the inputs carry a name-like and a status-like
\* key
NameLikeSpellings   == {"name", "Name", "unitName", "site", "SITE", "siteName"}
StatusLikeSpellings == {"status", "Status", "availability", "available",
                        "AVAILABLE", "isAvailable"}

HasNameLike(node)   == NodeKeys(node) \cap NameLikeSpellings # {}
HasStatusLike(node) == NodeKeys(node) \cap StatusLikeSpellings # {}

\* the mappings of the tree that have both kinds of key, in traversal order
QualifyingNodes(data) ==
    SelectSeq(_deep_iter(data), LAMBDA n : HasNameLike(n) /\ HasStatusLike(n))

\* C9: the extractor emits one record per mapping that has a name-like and a
\* status-like key in any casing and none for any other mapping: the records
\* are as many as those mappings and the k-th record describes the k-th of
\* them; a mapping with only one kind of key yields nothing.
C9_RecordIffNameAndStatus ==
    xpc = "done" =>
        /\ Len(extracted) = Len(QualifyingNodes(blob))
        /\ \A k \in DOMAIN extracted :
              extracted[k].details = Prefix(JsonDumps(QualifyingNodes(blob)[k]), DetailsLimit)
        /\ (blob.t = "map" /\ ~(HasNameLike(blob) /\ HasStatusLike(blob))) =>
              \A k \in DOMAIN extracted : extracted[k].details # Prefix(JsonDumps(blob), DetailsLimit)

\* a mapping that qualifies only through keys in another casing got its record
C9_Witness ==
    /\ xpc = "done" /\ Len(extracted) = 1
    /\ blob.t = "map"
    /\ NodeKeys(blob) \cap {"Name", "SITE"} # {}
    /\ NodeKeys(blob) \cap {"Status", "AVAILABLE"} # {}
    /\ NodeKeys(blob) \cap {"name", "unitName", "site", "siteName", "status",
                            "availability", "available", "isAvailable"} = {}

StatusPriority == <<"status", "availability", "available", "isAvailable">>

\* the value of the first key of StatusPriority the node has, in any casing
FirstStatusLikeValue(node) ==
    LET present(p) == \E e \in Range(node.kids) : Lower(e.k) = Lower(StatusPriority[p])
        first == CHOOSE p \in DOMAIN StatusPriority :
                    present(p) /\ \A q \in 1..(p - 1) : ~present(q)
    IN  (CHOOSE e \in Range(node.kids) : Lower(e.k) = Lower(StatusPriority[first])).v

\* C10: the status of a record is the string of the value of the first
\* status-like key its node has, in the order status, availability,
\* available, isAvailable, whether that value is truthy or not.
C10_StatusFirstPresent ==
    xpc = "done" =>
        \A k \in DOMAIN extracted :
            extracted[k].status = PyStr(FirstStatusLikeValue(QualifyingNodes(blob)[k]))

NamePriority == <<"unitName", "siteName", "site", "name">>

\* an absent value, an empty string or an empty container
IsEmptyValue(val) ==
    \/ val.t = "null"
    \/ val.t = "str" /\ val.s = ""
    \/ val.t \in {"map", "list"} /\ val.kids = <<>>

\* the string of the first non-empty value among the node's name-like keys,
\* in the order of NamePriority, whatever the casing of the key on the node
FirstNameLikeValue(node) ==
    LET filled(p) == \E e \in Range(node.kids) :
                        Lower(e.k) = Lower(NamePriority[p]) /\ ~IsEmptyValue(e.v)
    IN  IF \E p \in DOMAIN NamePriority : filled(p)
        THEN LET first == CHOOSE p \in DOMAIN NamePriority :
                             filled(p) /\ \A q \in 1..(p - 1) : ~filled(q)
             IN  PyStr((CHOOSE e \in Range(node.kids) :
                           Lower(e.k) = Lower(NamePriority[first])
                           /\ ~IsEmptyValue(e.v)).v)
        ELSE "Unknown"

\* C11: the unit_name of a record is the string of the first non-empty value
\* among its node's name-like keys in the order unitName, siteName, site,
\* name, the key being read as the node spells it, and it is "Unknown" only
\* when the node has no non-empty name-like value.
C11_UnitNameFirstNonEmpty ==
    xpc = "done" =>
        \A k \in DOMAIN extracted :
            extracted[k].unit_name = FirstNameLikeValue(QualifyingNodes(blob)[k])

\* the same for nodes whose name-like keys are spelled as in NamePriority and
\* whose name-like values are strings or absent
C11_ExactKeysStringValues ==
    xpc = "done" =>
        \A k \in DOMAIN extracted :
            LET node == QualifyingNodes(blob)[k]
            IN  (\A e \in Range(node.kids) :
                    Lower(e.k) \in NameLikeKeys =>
                        /\ e.k \in Range(NamePriority)
                        /\ e.v.t \in {"str", "null"})
                => extracted[k].unit_name = FirstNameLikeValue(node)

ManagedKeys == {"startDate", "endDate", "partySize", "equipmentId",
                "subEquipmentId", "nights"}

\* a URL as written: what precedes the query, the query, the fragment
RawCut(url, ch) == IF Find(url, ch, 1) = 0 THEN Len(url) + 1 ELSE Find(url, ch, 1)
RawNoFragment(url) == SubSeq(url, 1, RawCut(url, "#") - 1)
RawFragment(url) == From(url, RawCut(url, "#"))
RawHead(url) == SubSeq(RawNoFragment(url), 1, RawCut(RawNoFragment(url), "?") - 1)
RawQuery(url) == From(RawNoFragment(url), RawCut(RawNoFragment(url), "?") + 1)

\* the parameters of a URL as written, and the key of one
RawPieces(url) == SelectSeq(Split(RawQuery(url), "&"), LAMBDA piece : piece # "")
PieceName(piece) == SubSeq(piece, 1, RawCut(piece, "=") - 1)
PieceValue(piece) == From(piece, RawCut(piece, "=") + 1)
Named(pieces, key) == SelectSeq(pieces, LAMBDA piece : PieceName(piece) = key)

Count(seq, x) == Cardinality({ i \in DOMAIN seq : seq[i] = x })

\* C12: the builder changes nothing but the managed keys: what precedes the
\* query (scheme, host, path) and the fragment are as in the base URL, and
\* every parameter of the base URL with another key is in the built URL as
\* written, as many times as in the base URL, and no other is added.
C12_UnmanagedPartsUnchanged ==
    upc = "done" =>
        /\ RawHead(target_url) = RawHead(base_url)
        /\ RawFragment(target_url) = RawFragment(base_url)
        /\ \A piece \in Range(RawPieces(base_url)) \cup Range(RawPieces(target_url)) :
              PieceName(piece) \notin ManagedKeys =>
                  Count(RawPieces(target_url), piece) = Count(RawPieces(base_url), piece)

\* a parameter written as name=value, both non-empty and of characters that
\* need no escape
PlainPiece(piece) ==
    /\ PieceName(piece) # "" /\ PieceValue(piece) # ""
    /\ Find(piece, "=", 1) # 0
    /\ quote_plus(PieceName(piece)) = PieceName(piece)
    /\ quote_plus(PieceValue(piece)) = PieceValue(piece)

\* the same for base URLs whose scheme is written in lower case and whose
\* parameters are all plain
C12_PlainParametersUnchanged ==
    (/\ upc = "done"
     /\ Lower(RawHead(base_url)) = RawHead(base_url)
     /\ \A piece \in Range(RawPieces(base_url)) : PlainPiece(piece)) =>
        /\ RawHead(target_url) = RawHead(base_url)
        /\ RawFragment(target_url) = RawFragment(base_url)
        /\ \A piece \in Range(RawPieces(base_url)) \cup Range(RawPieces(target_url)) :
              PieceName(piece) \notin ManagedKeys =>
                  Count(RawPieces(target_url), piece) = Count(RawPieces(base_url), piece)

\* the value a managed key other than nights gets from the settings
ManagedValue(key) ==
    CASE key = "startDate"   -> isoformat(settings.start_date)
      [] key = "endDate"     -> isoformat(settings.end_date)
      [] key = "partySize"   -> PyStrInt(settings.party_size)
      [] key = "equipmentId" -> settings.equipment_id
      [] OTHER               -> settings.sub_equipment_id

\* C13: the built URL has startDate, endDate, partySize, equipmentId and
\* subEquipmentId exactly once each, with the encoded value the settings
\* give, whatever the base URL had under those keys; with nights in the
\* settings it has nights exactly once with that number, without it the
\* builder sets no nights and the base URL's nights parameters stay.
C13_ManagedKeysSetOnce ==
    upc = "done" =>
        /\ \A key \in ManagedKeys \ {"nights"} :
              Named(RawPieces(target_url), key)
                  = <<key \o "=" \o quote_plus(ManagedValue(key))>>
        /\ settings.nights # <<>> =>
              Named(RawPieces(target_url), "nights")
                  = <<"nights=" \o PyStrInt(settings.nights[1])>>
        /\ settings.nights = <<>> =>
              Named(RawPieces(target_url), "nights")
                  = Named(RawPieces(base_url), "nights")

\* the base URL had partySize twice and nights twice, the settings had nights
C13_Witness ==
    /\ upc = "done"
    /\ Len(Named(RawPieces(base_url), "partySize")) = 2
    /\ Len(Named(RawPieces(base_url), "nights")) = 2
    /\ settings.nights # <<>>
    /\ Len(Named(RawPieces(target_url), "nights")) = 1

\* C14: a call through the worker always ends: whatever the worker does, the
\* caller eventually has a record list or an error.
C14_InvocationTerminates == <>(cpc \in {"returned", "raised"})

\* the worker was still scanning when it was terminated and the caller got
\* the timeout error
C14_Witness ==
    /\ cpc = "raised" /\ error = TimeoutMessage
    /\ terminated /\ ipc = "dead" /\ pipe = <<>>

\* the keys of the records in the order in which each occurs first
FirstOccurrenceKeys(records) ==
    LET firsts == { k \in DOMAIN records :
                      \A n \in 1..(k - 1) : RecordKey(records[n]) # RecordKey(records[k]) }
    IN  [i \in 1..Cardinality(firsts) |->
            RecordKey(records[CHOOSE k \in firsts :
                                 Cardinality({ m \in firsts : m <= k }) = i])]

\* C15: the pairs (unit_name, status) of a structured contribution stand in
\* the order in which each pair occurred first among the accumulated records.
C15_DedupFirstOccurrenceOrder ==
    (accum # <<>> /\ accum[1].records # <<>>) =>
        \E i \in DOMAIN hist :
            /\ hist[i].request = accum[1].request
            /\ [x \in DOMAIN hist[i].contribution |-> RecordKey(hist[i].contribution[x])]
                  = FirstOccurrenceKeys(accum[1].records)

\* the first accumulated record was overwritten by the third, a record with
\* another pair lying between them, and the contribution starts with the
\* third record
C15_Witness ==
    /\ accum # <<>> /\ Len(accum[1].records) = 3
    /\ RecordKey(accum[1].records[1]) = RecordKey(accum[1].records[3])
    /\ RecordKey(accum[1].records[1]) # RecordKey(accum[1].records[2])
    /\ accum[1].records[1] # accum[1].records[3]
    /\ \E i \in DOMAIN hist :
          /\ hist[i].request = accum[1].request
          /\ hist[i].contribution = <<accum[1].records[3], accum[1].records[2]>>

\* the three checks on a response: a token in its URL in any casing, a
\* content type that says JSON, a body that decodes
UrlHasToken(response) ==
    \E token \in {"avail", "camp", "inventory", "site", "unit"} :
        \E i \in 1..Len(response.url) :
            Lower(SubSeq(response.url, i, Min(Len(response.url), i + Len(token) - 1)))
                = token
DeclaresJson(response) ==
    \E i \in DOMAIN response.headers :
        /\ response.headers[i].k = "content-type"
        /\ Contains(response.headers[i].v, "application/json")
PassesChecks(response) ==
    UrlHasToken(response) /\ DeclaresJson(response) /\ response.decodes

\* what the three checks make of the accumulated records
AfterChecks(response, request, api) ==
    IF PassesChecks(response)
    THEN api \o _extract_from_json_blob(response.body, request.name, response.url)
    ELSE api

\* C16: a response contributes only when it passes the three checks: while
\* the observer can run, what it makes of any response is the accumulated
\* records followed by the records the extractor finds in the body, with the
\* response's URL as source, when the response passes, and the accumulated
\* records as they were when it fails a check; and whenever the accumulated
\* records change during navigation or settle wait, a response that passes
\* the checks has had its records appended.
C16_OnlyCheckedResponsesContribute ==
    /\ [](ipc \in {"goto", "settle"} =>
            \A response \in Responses :
                LET got == handle_response(response, requests[req_idx], api_records)
                IN  /\ got = AfterChecks(response, requests[req_idx], api_records)
                    /\ \A k \in (Len(api_records) + 1)..Len(got) :
                          got[k].source = response.url)
    /\ [][ (ipc \in {"goto", "settle"} /\ ipc' = ipc /\ api_records' # api_records) =>
              \E response \in Responses :
                  /\ PassesChecks(response)
                  /\ api_records' = AfterChecks(response, requests[req_idx], api_records)
          ]_vars

\* records of two responses with different URLs were accumulated on one page
C16_Witness ==
    /\ ipc \in {"goto", "settle"}
    /\ \E k, m \in DOMAIN api_records :
          /\ k < m
          /\ api_records[k].source = AvailUrl
          /\ api_records[m].source = UnitUrl


\* the value found by following a path of child positions from a value
RECURSIVE At(_, _)
At(val, path) ==
    IF path = <<>> THEN val ELSE At(val.kids[Head(path)].v, Tail(path))

\* every path of child positions that leads to a value of the tree
RECURSIVE PathsOf(_)
PathsOf(val) ==
    {<<>>} \cup
    (IF val.t \in {"map", "list"}
     THEN UNION { { <<i>> \o p : p \in PathsOf(val.kids[i].v) } : i \in DOMAIN val.kids }
     ELSE {})

\* depth-first pre-order on paths: a value comes before everything below it,
\* and the children of a value come in their order
Before(p, q) ==
    \E i \in 1..Len(q) :
        /\ \A j \in 1..(i - 1) : j <= Len(p) /\ p[j] = q[j]
        /\ (i > Len(p) \/ p[i] < q[i])

\* the paths of the mappings that carry a name-like and a status-like key
QualifyingPaths(val) ==
    { p \in PathsOf(val) : At(val, p).t = "map" /\ Qualifies(At(val, p)) }

\* the position of a qualifying path among the qualifying paths
Rank(val, p) == Cardinality({ q \in QualifyingPaths(val) : Before(q, p) }) + 1

\* C17: the extractor returns one record per qualifying mapping of the tree,
\* wherever the mapping sits (inside another qualifying mapping, inside
\* sequences of any depth), in depth-first pre-order, equal records kept
\* apart; a scalar yields nothing.
C17_OneRecordPerQualifyingNodePreOrder ==
    xpc = "done" =>
        /\ Len(extracted) = Cardinality(QualifyingPaths(blob))
        /\ \A p \in QualifyingPaths(blob) :
               extracted[Rank(blob, p)]
                   = NodeRecord(At(blob, p), ExtractCampground, ExtractSource)
        /\ blob.t \notin {"map", "list"} => extracted = <<>>

\* a qualifying mapping under a key of a qualifying mapping: two records,
\* the outer mapping's first
C17_Witness ==
    /\ xpc = "done"
    /\ blob.t = "map" /\ Qualifies(blob)
    /\ \E i \in DOMAIN blob.kids :
          /\ blob.kids[i].v.t = "map" /\ Qualifies(blob.kids[i].v)
          /\ Len(extracted) = 2
          /\ extracted[1] = NodeRecord(blob, ExtractCampground, ExtractSource)
          /\ extracted[2] = NodeRecord(blob.kids[i].v, ExtractCampground, ExtractSource)
          /\ extracted[1] # extracted[2]

\* every record of a list carries the name of a request as campground
AllOfRequest(records, r) ==
    \A k \in DOMAIN records : records[k].campground = requests[r].name

\* a step of the observer: while the scan waits in the navigation or in the
\* settle wait, the accumulated records or the record of a failed decoding
\* change
ObserverStep ==
    /\ ipc \in {"goto", "settle"} /\ ipc' = ipc
    /\ <<api_records, decode_failed>>' # <<api_records, decode_failed>>

\* C18: interception is isolated per request: the only page that can be
\* open is the page of the request the loop is at; while it is open the
\* records the observer has accumulated carry that request's name, and so
\* does every contribution, under the request that made it; a step of the
\* observer is taken with that page as the only open page, adds only records
\* with that request's name to the accumulated records and changes neither
\* the aggregate nor a contribution already made; and a new page starts with
\* nothing accumulated.
C18_InterceptionIsolatedPerRequest ==
    /\ [](/\ Cardinality(open_pages) <= 1
          /\ open_pages \subseteq {req_idx}
          /\ req_idx \in open_pages => AllOfRequest(api_records, req_idx)
          /\ \A h \in DOMAIN hist :
                AllOfRequest(hist[h].contribution, hist[h].request))
    /\ [][ ObserverStep =>
              /\ open_pages = {req_idx}
              /\ req_idx' = req_idx /\ open_pages' = open_pages
              /\ all_records' = all_records /\ hist' = hist
              /\ IsPrefix(api_records, api_records')
              /\ \A k \in (Len(api_records) + 1)..Len(api_records') :
                    api_records'[k].campground = requests[req_idx].name ]_vars
    /\ [][ NewPage => api_records' = <<>> /\ open_pages' = {req_idx} ]_vars

\* the second request's page is the one open page and has records
\* accumulated, after the first request contributed records seen on its page
C18_Witness ==
    /\ req_idx = 2 /\ open_pages = {2} /\ ipc \in {"goto", "settle"}
    /\ api_records # <<>> /\ AllOfRequest(api_records, 2)
    /\ \E h \in DOMAIN hist :
          /\ hist[h].request = 1 /\ hist[h].path = "structured"
          /\ hist[h].contribution # <<>>
          /\ AllOfRequest(hist[h].contribution, 1)
    /\ requests[1].name # requests[2].name

\* C19: a worker that finished the scan and put its records gets them to the
\* caller whatever their number: while the caller waits in join(120) and
\* nothing has gone wrong with the worker, the records it put can be written
\* to the pipe, so that the worker can exit and the join return before the
\* bound; and a list the caller returns is the list the scan produced in
\* the worker, record for record.
C19_CompletedResultReturned ==
    /\ (cpc = "join" /\ process = "put" /\ ipc = "returned" /\ ~terminated
          /\ feeder # <<>>) =>
          ENABLED FeederFlushes
    /\ cpc = "returned" => ipc = "returned" /\ result = all_records

\* the records of a completed scan reach the caller when they fit the pipe
C19_FittingResultReturned ==
    /\ (cpc = "join" /\ process = "put" /\ ipc = "returned" /\ ~terminated
          /\ feeder # <<>> /\ Len(all_records) <= PipeCapacity) =>
          ENABLED FeederFlushes
    /\ cpc = "returned" => ipc = "returned" /\ result = all_records

\* a request has a contribution read from the page text
TextContribution(r) ==
    \E h \in DOMAIN hist : hist[h].request = r /\ hist[h].path = "text"

\* C20: the observer is in place when the navigation starts and the
\* deduplication and the choice between structured records and page text
\* come only when the settle wait that follows the navigation (returned or
\* timed out) has ended: during navigation and settle wait the request's page
\* is open, nothing is decided, and the observer appends the records of any
\* response that passes its checks; the accumulated records grow in these
\* two phases only, by such records, and lose nothing; the deduplication
\* reads the
\* accumulated records at the end of the settle wait and at no other
\* moment; and once it has read a non-empty list the page text is never read
\* for the request.
C20_DecisionAfterSettle ==
    /\ [](/\ ipc \in {"goto", "settle"} =>
                /\ req_idx \in open_pages
                /\ accum = <<>>
                /\ \A h \in DOMAIN hist : hist[h].request # req_idx
                /\ \A response \in Responses :
                      PassesChecks(response) =>
                          handle_response(response, requests[req_idx], api_records)
                              = AfterChecks(response, requests[req_idx], api_records)
          /\ (accum # <<>> /\ ipc \in {"inner_text", "close"}) =>
                /\ accum[1].request = req_idx
                /\ accum[1].records = api_records
                /\ accum[1].records # <<>> =>
                      ipc # "inner_text" /\ ~TextContribution(req_idx))
    /\ [][ /\ (ipc = "goto" /\ ipc' \notin {"goto", "raised", "dead"}) =>
                 ipc' = "settle" /\ api_records' = api_records
           /\ (ipc \in {"goto", "settle"} /\ ipc' \in {"goto", "settle"}) =>
                 IsPrefix(api_records, api_records')
           /\ accum' # accum /\ accum' # <<>> =>
                 /\ ipc = "settle"
                 /\ accum' = <<Snapshot(req_idx, api_records)>>
           /\ api_records' # api_records /\ api_records' # <<>> =>
                 /\ ipc \in {"goto", "settle"} /\ ipc' = ipc
                 /\ \E response \in Responses :
                       /\ PassesChecks(response)
                       /\ api_records' =
                             AfterChecks(response, requests[req_idx], api_records)
         ]_vars

\* the navigation timed out with nothing accumulated, records arrived during
\* the settle wait, and the request contributed them instead of page text
C20_Witness ==
    /\ ipc = "close"
    /\ nav_timeout # <<>> /\ nav_timeout[1].request = req_idx
    /\ nav_timeout[1].records = <<>>
    /\ accum # <<>> /\ accum[1].records # <<>>
    /\ hist # <<>>
    /\ hist[Len(hist)].request = req_idx
    /\ hist[Len(hist)].path = "structured"
    /\ hist[Len(hist)].contribution = unique_records(accum[1].records)
====
